---- MODULE Spec2Model ----
(***************************************************************************)
(* A model of mcop's connection lifecycle: the MCP protocol client         *)
(* (src/src/mcp/client.go) and the application model that starts and stops *)
(* servers from key messages (src/src/model/app_state.go).                 *)
(*                                                                         *)
(* Go strings are TLA+ strings; s[i] is SubSeq(s, i+1, i+1) and len(s) is  *)
(* Len(s).  Go slice indices are 0-based, TLA+ sequences are 1-based: the  *)
(* server at Go index i is Servers[i + 1].                                 *)
(***************************************************************************)
EXTENDS Integers, Sequences, FiniteSets, TLC

VARIABLES
    Servers,         \* AppState.Servers: the list of server records
    MCPConnections,  \* AppState.MCPConnections: server ID -> client handle
    clients,         \* the MCPClient objects that exist, by handle (1..Len)
    SelectedIndex,   \* AppState.SelectedIndex (0-based)
    View,            \* AppState.View: "list", "detail" or "config"
    pc,              \* the process: "running", "quit", "crashed" (panic) or "returned" (Run)
    last,            \* what the last handled call did: [op, err]
    nConnect,        \* Connect calls made so far on the client under test
    proc,            \* the child process: "none", "running", "exited" or "killed"
    loop,            \* the readLoop goroutine: "none", "running" or "done"
    outbuf,          \* the stdout pipe: lines the server wrote, not yet read
    stdinbuf,        \* the stdin pipe: request ids written, not yet read by the server
    printed,         \* the lines readLoop has logged ("Received: ...")
    calls,           \* the Call invocations that have returned: [id, err, result]
    now,             \* the clock generateID reads
    cfgFile,         \* the servers in config/default.json as the add and remove commands see it
    descendant,      \* a process started by the child holds the write end of its stdout
    ShowDialog,      \* AppInterface.ShowDialog
    DialogType,      \* AppInterface.DialogType
    LogMessages,     \* AppInterface.LogMessages, without the time stamps
    handler,         \* the example server that runs: "cli", "generic", "qwen" or "none"
    request,         \* the input line the example server has read last
    response,        \* the line it has written to stdout for that request
    executed,        \* the programs run while that request was handled
    touched,         \* the files opened while that request was handled: [op, path]
    nonblank,        \* the input lines sent to the example server that are not blank
    written,         \* the response lines the example server has written to stdout
    parseInput,      \* the command string parseCommand is called with
    parseOutput,     \* the arguments parseCommand returned for it
    added,           \* every message addLogMessage was called with, oldest first
    console,         \* the lines renderLogConsole gave when View was called last
    callers,         \* the goroutines that call Call: [at, id, sent, done]
    fdlock,          \* the goroutine that holds the write lock of the stdin pipe's file, 0 for none
    wire             \* the stdin pipe: the chunks written to it, [g, id, part]

\* the state of one connection and of the configuration file
sessVars == <<proc, loop, outbuf, stdinbuf, printed, calls, now, cfgFile, descendant>>

\* the state of the UI wrapper around the application model
uiVars == <<ShowDialog, DialogType, LogMessages>>

\* the state of an example server
srvVars == <<handler, request, response, executed, touched, nonblank, written>>

\* a call of parseCommand
parseVars == <<parseInput, parseOutput>>

\* the history of the log and what the log console shows
logVars == <<added, console>>

\* the goroutines that call Call at the same time, and the stdin pipe
writeVars == <<callers, fdlock, wire>>

vars == <<Servers, MCPConnections, clients, SelectedIndex, View, pc, last, nConnect,
          proc, loop, outbuf, stdinbuf, printed, calls, now, cfgFile, descendant,
          ShowDialog, DialogType, LogMessages,
          handler, request, response, executed, touched, nonblank, written,
          parseInput, parseOutput, added, console, callers, fdlock, wire>>

----------------------------------------------------------------------------
(* Bounds of the model.                                                    *)

\* the configuration file holds at most this many servers
MaxCfgServers == 2
\* at most this many client objects with a spawned process are kept
MaxClients == 2
\* the API caller of the client under test makes at most this many Connect calls
MaxConnectCalls == 3
\* the server writes at most this many lines to its stdout
MaxLines == 2
\* at most this many Call invocations are made on the client
MaxCalls == 2
\* the clock generateID reads advances at most to this value
MaxTime == 2
\* the operation log of the UI is followed up to this many messages
MaxLog == 2
\* the command strings parseCommand is called with have at most this many bytes
MaxLen == 3
\* a long configuration file holds at most this many servers
MaxFileServers == 4
\* an example server is sent at most this many lines that are not blank
MaxServed == 2
\* the log is followed for this many messages beyond the ones it keeps
MaxAdds == 3
\* at most this many goroutines call Call at the same time
MaxCallers == 2
\* the pipe takes a request frame in at most this many pieces
MaxChunks == 2

----------------------------------------------------------------------------
(* The environment: the executables exec.Cmd.Start can launch.             *)

Launchable == {"echo", "python"}

----------------------------------------------------------------------------
(* src/src/mcp/client.go                                                   *)

RECURSIVE parseLoop(_, _, _, _, _, _)
\* the for loop of parseCommand, from byte i (1-based) on
parseLoop(command, i, parts, current, inQuotes, quoteChar) ==
    IF i > Len(command)
    THEN IF current # "" THEN Append(parts, current) ELSE parts
    ELSE LET char == SubSeq(command, i, i) IN
         IF ~inQuotes /\ (char = "'" \/ char = "\"")
         THEN parseLoop(command, i + 1, parts, current, TRUE, char)
         ELSE IF inQuotes /\ char = quoteChar
         THEN parseLoop(command, i + 1, parts, current, FALSE, quoteChar)
         ELSE IF ~inQuotes /\ char = " "
         THEN IF current # ""
              THEN parseLoop(command, i + 1, Append(parts, current), "", inQuotes, quoteChar)
              ELSE parseLoop(command, i + 1, parts, current, inQuotes, quoteChar)
         ELSE parseLoop(command, i + 1, parts, current \o char, inQuotes, quoteChar)

parseCommand(command) == parseLoop(command, 1, <<>>, "", FALSE, "")

\* NewMCPClient: a client for a copy of the server record, nothing opened
NewMCPClient(server) ==
    [Server    |-> server,
     cmd       |-> "nil",      \* "nil", "unstarted" (cmd.Process nil), "running", "killed"
     stdin     |-> "nil",      \* "nil", "open", "closed"
     stdout    |-> "nil",
     cancelled |-> FALSE,      \* cancel() of the client's context was called
     connected |-> FALSE,
     procs     |-> 0,          \* child processes this client has started
     loops     |-> 0]          \* readLoop goroutines this client has started

\* a plausible other form of the scheme test: eight bytes against "stdio://"
HasStdioPrefix8(url) == Len(url) >= 8 /\ SubSeq(url, 1, 8) = "stdio://"

\* the scheme test of Connect: c.Server.URL[:7] == "stdio://" (seven bytes
\* against a string of eight); the caller has checked Len(url) >= 7
HasStdioPrefix(url) == SubSeq(url, 1, 7) = "stdio://"

\* the result of Connect: the client after the call, the error returned
\* ("nil" for none) and whether the call panicked
ConnectResult(c, e, p) == [client |-> c, err |-> e, panic |-> p]

\* Connect, the stdio branch: the command after the prefix is parsed and
\* started with its stdin and stdout piped; on success connected is set and
\* readLoop started.  When Start fails c.cmd stays set with a nil Process.
ConnectStdio(c) ==
    LET url == c.Server.URL IN
    IF Len(url) < 8 THEN ConnectResult(c, "none", TRUE)
    ELSE LET command == SubSeq(url, 9, Len(url))
             parts   == parseCommand(command)
         IN
         IF Len(parts) = 0 THEN ConnectResult(c, "invalid command", FALSE)
         ELSE IF parts[1] \notin Launchable
         THEN ConnectResult([c EXCEPT !.cmd = "unstarted", !.stdin = "open", !.stdout = "open"],
                            "failed to start command", FALSE)
         ELSE ConnectResult([c EXCEPT !.cmd = "running", !.stdin = "open", !.stdout = "open",
                                      !.connected = TRUE,
                                      !.procs = @ + 1, !.loops = @ + 1],
                            "nil", FALSE)

\* Connect: a panic is a slice bound out of range
Connect(c) ==
    LET url == c.Server.URL IN
    IF url = "" THEN ConnectResult(c, "server URL is empty", FALSE)
    ELSE IF Len(url) < 7 THEN ConnectResult(c, "none", TRUE)
    ELSE IF HasStdioPrefix(url) THEN ConnectStdio(c)
    ELSE ConnectResult(c, "unsupported protocol", FALSE)

\* Disconnect: the client after the call, the error returned (that of
\* Process.Kill, "nil" for none: the process is never waited for, so Kill
\* still finds it) and whether the call panicked (c.cmd.Process is nil when
\* the command was never started)
Disconnect(c) ==
    LET c1 == [c EXCEPT !.connected = FALSE, !.cancelled = TRUE] IN
    IF c.cmd # "nil"
    THEN IF c.cmd = "unstarted"
         THEN [client |-> c1, err |-> "none", panic |-> TRUE]
         ELSE [client |-> [c1 EXCEPT !.cmd = "killed"],
               err |-> "nil",
               panic |-> FALSE]
    ELSE [client |-> [c1 EXCEPT !.stdin  = IF @ = "nil" THEN "nil" ELSE "closed",
                                !.stdout = IF @ = "nil" THEN "nil" ELSE "closed"],
          err |-> "nil", panic |-> FALSE]

\* generateID: "req_" followed by the clock reading t in nanoseconds; the
\* prefix is the same for every id, so the id is represented by the reading
generateID(t) == t

\* Call: the error returned ("nil" for none), the response returned with it
\* and whether a request frame was written to stdin.  pipeOk: the write to the
\* stdin pipe succeeds (the child still holds the read end).  The response
\* returned is the placeholder built from the request: its ID, no Result and
\* no Error.
Call(c, t, pipeOk) ==
    LET id == generateID(t) IN
    IF ~c.connected
    THEN [err |-> "not connected to server", id |-> id, result |-> "nil", wrote |-> FALSE]
    ELSE IF ~pipeOk
    THEN [err |-> "failed to send request", id |-> id, result |-> "nil", wrote |-> FALSE]
    ELSE [err |-> "nil", id |-> id, result |-> "nil", wrote |-> TRUE]

----------------------------------------------------------------------------
(* src/src/model/app_state.go                                              *)

\* a server record (types.MCPServer); StartTime is "zero" for time.Time{}
\* and "set" for a timestamp
MCPServer(id, url, status, startTime, active) ==
    [ID |-> id, URL |-> url, Status |-> status,
     StartTime |-> startTime, ActiveConnections |-> active]

\* loadMockServers: the list it installs
MockServers ==
    << MCPServer("1", "stdio://npx @modelcontextprotocol/server-github", "running", "set", 2),
       MCPServer("2", "http://localhost:8000/sse", "running", "set", 1),
       MCPServer("3", "stdio://python filesystem_server.py", "stopped", "zero", 0) >>

\* the IDs, URLs and statuses a configuration file is drawn from
CfgIDs == {"1", "x"}
CfgURLs == {"", "abc", "stdio://echo hi"}
CfgStatuses == {"stopped", "running"}

\* NewAppModel: the server records converted from the configuration; a
\* start time read from JSON is never a time.Time, so StartTime is zero
CfgServers ==
    {MCPServer(id, url, st, "zero", 0) : id \in CfgIDs, url \in CfgURLs, st \in CfgStatuses}

CfgLists == UNION {[1..n -> CfgServers] : n \in 0..MaxCfgServers}

NoCall == [op |-> "none", err |-> "none"]

\* the map without the entry for id
MapDelete(m, id) == [k \in DOMAIN m \ {id} |-> m[k]]

\* the map with id bound to h
MapPut(m, id, h) == [k \in DOMAIN m \cup {id} |-> IF k = id THEN h ELSE m[k]]

\* the outcome of a call on the application state
Outcome(servers, conns, cls, crashed, op, err) ==
    [Servers |-> servers, MCPConnections |-> conns, clients |-> cls,
     panic |-> crashed, last |-> [op |-> op, err |-> err]]

\* the active-connection count ToggleServer sets at its end
Active(server) ==
    [server EXCEPT !.ActiveConnections = IF server.Status = "running" THEN 1 ELSE 0]

\* the start branch with the map insert moved before the error test
StartBranchStoresFirst(server, index) ==
    LET r == Connect(NewMCPClient(server))
        put(s) == [Servers EXCEPT ![index + 1] = s]
        conns == MapPut(MCPConnections, server.ID, Len(clients) + 1)
        cls == Append(clients, r.client)
    IN
    IF r.panic
    THEN Outcome(Servers, MCPConnections, clients, TRUE, "start", "none")
    ELSE IF r.err # "nil"
    THEN Outcome(put([server EXCEPT !.Status = "error"]), conns, cls, FALSE, "start", r.err)
    ELSE Outcome(put(Active([server EXCEPT !.Status = "running", !.StartTime = "set"])),
                 conns, cls, FALSE, "start", "nil")

\* ToggleServer, the branch for a server whose Status is "stopped": a new
\* client for a copy of the record, Connect, and the record of its result
StartBranch(server, index) ==
    LET r == Connect(NewMCPClient(server))
        put(s) == [Servers EXCEPT ![index + 1] = s]
    IN
    IF r.panic
    THEN Outcome(Servers, MCPConnections, clients, TRUE, "start", "none")
    ELSE IF r.err # "nil"
    THEN Outcome(put([server EXCEPT !.Status = "error"]), MCPConnections, clients,
                 FALSE, "start", r.err)
    ELSE Outcome(put(Active([server EXCEPT !.Status = "running", !.StartTime = "set"])),
                 MapPut(MCPConnections, server.ID, Len(clients) + 1),
                 Append(clients, r.client), FALSE, "start", "nil")

\* the stop of a running server: Disconnect on the client held under the
\* server's ID, if any, the entry deleted, and the record replaced by stopped
StopBranch(server, index, stopped) ==
    LET put(s) == [Servers EXCEPT ![index + 1] = s]
        exists == server.ID \in DOMAIN MCPConnections
        h == MCPConnections[server.ID]
        d == Disconnect(clients[h])
    IN
    IF exists
    THEN IF d.panic
         THEN Outcome(Servers, MCPConnections, [clients EXCEPT ![h] = d.client],
                      TRUE, "stop", "none")
         ELSE Outcome(put(stopped), MapDelete(MCPConnections, server.ID),
                      [clients EXCEPT ![h] = d.client], FALSE, "stop", "none")
    ELSE Outcome(put(stopped), MCPConnections, clients, FALSE, "stop", "none")

\* ToggleServer(index), index 0-based
ToggleServer(index) ==
    IF index >= Len(Servers)
    THEN Outcome(Servers, MCPConnections, clients, FALSE, "none", "none")
    ELSE
    LET server == Servers[index + 1] IN
    IF server.Status = "running"
    THEN StopBranch(server, index, Active([server EXCEPT !.Status = "stopped"]))
    ELSE IF server.Status = "stopped"
    THEN StartBranch(server, index)
    ELSE Outcome([Servers EXCEPT ![index + 1] = Active(server)], MCPConnections, clients,
                 FALSE, "other", "none")

\* the record update with the status left as it was
DisconnectedRecordKeepsStatus(server) ==
    [server EXCEPT !.ActiveConnections = 0]

\* DisconnectServer: the record it leaves for a server that was running
DisconnectedRecord(server) ==
    [server EXCEPT !.ActiveConnections = 0, !.Status = "stopped"]

\* the d key wired to the start/stop toggle
DisconnectServerToggles(index) == ToggleServer(index)

\* DisconnectServer(index), index 0-based
DisconnectServer(index) ==
    IF index >= Len(Servers)
    THEN Outcome(Servers, MCPConnections, clients, FALSE, "none", "none")
    ELSE
    LET server == Servers[index + 1] IN
    IF server.Status = "running"
    THEN StopBranch(server, index, DisconnectedRecord(server))
    ELSE Outcome(Servers, MCPConnections, clients, FALSE, "noop", "none")

\* the state after a call with outcome o; a panic ends the process
Apply(o) ==
    /\ Servers' = o.Servers
    /\ MCPConnections' = o.MCPConnections
    /\ clients' = o.clients
    /\ pc' = IF o.panic THEN "crashed" ELSE pc
    /\ last' = o.last

\* no connection is modelled and the configuration file is not looked at
Idle ==
    /\ proc = "none"
    /\ loop = "none"
    /\ outbuf = << >>
    /\ stdinbuf = << >>
    /\ printed = << >>
    /\ calls = << >>
    /\ now = 0
    /\ cfgFile = << >>
    /\ descendant = FALSE

\* no request: the value of request and response when there is none
NoRequest == [kind |-> "none"]

\* ui.NewAppModel: no dialog and an empty log; and no example server runs
Quiet ==
    /\ ShowDialog = FALSE
    /\ DialogType = ""
    /\ LogMessages = << >>
    /\ handler = "none"
    /\ request = NoRequest
    /\ response = NoRequest
    /\ executed = {}
    /\ touched = {}
    /\ nonblank = 0
    /\ written = 0
    /\ parseInput = ""
    /\ parseOutput = << >>
    /\ added = << >>
    /\ console = << >>
    /\ callers = << >>
    /\ fdlock = 0
    /\ wire = << >>

\* NewAppModel followed by Init: the configured servers, or the mock
\* servers when the configuration has none
Init ==
    /\ \E cfg \in CfgLists :
           Servers = IF Len(cfg) = 0 THEN MockServers ELSE cfg
    /\ MCPConnections = << >>
    /\ clients = << >>
    /\ SelectedIndex = 0
    /\ View = "list"
    /\ pc = "running"
    /\ last = NoCall
    /\ nConnect = 0
    /\ Idle
    /\ Quiet

\* handleKeyMsg, one action per key
KeyQuit ==
    /\ pc = "running"
    /\ pc' = "quit"
    /\ last' = NoCall
    /\ UNCHANGED <<Servers, MCPConnections, clients, SelectedIndex, View, nConnect>>
    /\ UNCHANGED <<sessVars, uiVars, srvVars, parseVars, logVars, writeVars>>

KeyUp ==
    /\ pc = "running"
    /\ SelectedIndex' = IF SelectedIndex > 0 THEN SelectedIndex - 1 ELSE SelectedIndex
    /\ last' = NoCall
    /\ UNCHANGED <<Servers, MCPConnections, clients, View, pc, nConnect>>
    /\ UNCHANGED <<sessVars, uiVars, srvVars, parseVars, logVars, writeVars>>

KeyDown ==
    /\ pc = "running"
    /\ SelectedIndex' = IF SelectedIndex < Len(Servers) - 1
                        THEN SelectedIndex + 1 ELSE SelectedIndex
    /\ last' = NoCall
    /\ UNCHANGED <<Servers, MCPConnections, clients, View, pc, nConnect>>
    /\ UNCHANGED <<sessVars, uiVars, srvVars, parseVars, logVars, writeVars>>

KeyEnter ==
    /\ pc = "running"
    /\ View' = "detail"
    /\ last' = NoCall
    /\ UNCHANGED <<Servers, MCPConnections, clients, SelectedIndex, pc, nConnect>>
    /\ UNCHANGED <<sessVars, uiVars, srvVars, parseVars, logVars, writeVars>>

KeyR ==
    /\ pc = "running"
    /\ Servers' = MockServers
    /\ last' = NoCall
    /\ UNCHANGED <<MCPConnections, clients, SelectedIndex, View, pc, nConnect>>
    /\ UNCHANGED <<sessVars, uiVars, srvVars, parseVars, logVars, writeVars>>

KeyC ==
    /\ pc = "running"
    /\ View' = "config"
    /\ last' = NoCall
    /\ UNCHANGED <<Servers, MCPConnections, clients, SelectedIndex, pc, nConnect>>
    /\ UNCHANGED <<sessVars, uiVars, srvVars, parseVars, logVars, writeVars>>

KeyS ==
    /\ pc = "running"
    /\ IF View = "list" /\ SelectedIndex < Len(Servers)
       THEN /\ Len(ToggleServer(SelectedIndex).clients) <= MaxClients
            /\ Apply(ToggleServer(SelectedIndex))
       ELSE /\ last' = NoCall
            /\ UNCHANGED <<Servers, MCPConnections, clients, pc>>
    /\ UNCHANGED <<SelectedIndex, View, nConnect>>
    /\ UNCHANGED <<sessVars, uiVars, srvVars, parseVars, logVars, writeVars>>

KeyD ==
    /\ pc = "running"
    /\ IF View = "detail" /\ SelectedIndex < Len(Servers)
       THEN Apply(DisconnectServer(SelectedIndex))
       ELSE /\ last' = NoCall
            /\ UNCHANGED <<Servers, MCPConnections, clients, pc>>
    /\ UNCHANGED <<SelectedIndex, View, nConnect>>
    /\ UNCHANGED <<sessVars, uiVars, srvVars, parseVars, logVars, writeVars>>

KeyEsc ==
    /\ pc = "running"
    /\ View' = "list"
    /\ last' = NoCall
    /\ UNCHANGED <<Servers, MCPConnections, clients, SelectedIndex, pc, nConnect>>
    /\ UNCHANGED <<sessVars, uiVars, srvVars, parseVars, logVars, writeVars>>

Next ==
    \/ KeyQuit
    \/ KeyUp
    \/ KeyDown
    \/ KeyEnter
    \/ KeyR
    \/ KeyC
    \/ KeyS
    \/ KeyD
    \/ KeyEsc

Spec == Init /\ [][Next]_vars

----------------------------------------------------------------------------
(* The application started on a longer configuration file, one with more   *)
(* servers than the mock list has and with the active connection counts a  *)
(* file may give ("active_connections").                                   *)

\* the servers of the file, in the order of the file
FileServers ==
    << MCPServer("f1", "http://localhost:8000/sse", "stopped", "zero", 2),
       MCPServer("f2", "", "stopped", "zero", 0),
       MCPServer("f3", "stdio://echo hi", "running", "zero", 1),
       MCPServer("f4", "stdio://echo hi", "stopped", "zero", 0),
       MCPServer("f5", "http://localhost:8000/sse", "running", "zero", 3),
       MCPServer("f6", "", "stopped", "zero", 1) >>

\* NewAppModel followed by Init, on a file with the first n of these servers
InitFile ==
    /\ \E n \in 0..MaxFileServers :
           Servers = IF n = 0 THEN MockServers ELSE SubSeq(FileServers, 1, n)
    /\ MCPConnections = << >>
    /\ clients = << >>
    /\ SelectedIndex = 0
    /\ View = "list"
    /\ pc = "running"
    /\ last = NoCall
    /\ nConnect = 0
    /\ Idle
    /\ Quiet

SpecFile == InitFile /\ [][Next]_vars

----------------------------------------------------------------------------
(* One MCPClient driven through its exported methods by a caller.          *)

\* the URLs of the server the client under test is made for
ClientURLs ==
    {"", "abc", "stdio:/", "stdio://", "stdio://''", "stdio://echo hi",
     "stdio://nosuch", "http://localhost:8000/sse"}

ClientServers == {MCPServer(id, url, "stopped", "zero", 0) : id \in CfgIDs, url \in ClientURLs}

\* NewMCPClient(server): the client under test is clients[1]
InitClient ==
    /\ \E server \in ClientServers : clients = << NewMCPClient(server) >>
    /\ Servers = << >>
    /\ MCPConnections = << >>
    /\ SelectedIndex = 0
    /\ View = "list"
    /\ pc = "running"
    /\ last = NoCall
    /\ nConnect = 0
    /\ Idle
    /\ Quiet

\* the caller calls Connect
CallConnect ==
    /\ pc = "running"
    /\ nConnect < MaxConnectCalls
    /\ LET r == Connect(clients[1]) IN
       /\ clients' = << r.client >>
       /\ pc' = IF r.panic THEN "crashed" ELSE pc
       /\ last' = [op |-> "Connect", err |-> r.err]
    /\ nConnect' = nConnect + 1
    /\ UNCHANGED <<Servers, MCPConnections, SelectedIndex, View>>
    /\ UNCHANGED <<sessVars, uiVars, srvVars, parseVars, logVars, writeVars>>

\* the caller calls Disconnect
CallDisconnect ==
    /\ pc = "running"
    /\ LET d == Disconnect(clients[1]) IN
       /\ clients' = << d.client >>
       /\ pc' = IF d.panic THEN "crashed" ELSE pc
       /\ last' = [op |-> "Disconnect", err |-> d.err]
    /\ UNCHANGED <<Servers, MCPConnections, SelectedIndex, View, nConnect>>
    /\ UNCHANGED <<sessVars, uiVars, srvVars, parseVars, logVars, writeVars>>

NextClient ==
    \/ CallConnect
    \/ CallDisconnect

SpecClient == InitClient /\ [][NextClient]_vars

\* config.RemoveServer: the server list without the first server whose ID
\* is serverID, and whether there was one
RemoveServer(servers, serverID) ==
    IF \E i \in DOMAIN servers : servers[i].ID = serverID
    THEN LET i == CHOOSE k \in DOMAIN servers :
                     /\ servers[k].ID = serverID
                     /\ \A j \in 1..(k - 1) : servers[j].ID # serverID
         IN [Servers |-> SubSeq(servers, 1, i - 1) \o SubSeq(servers, i + 1, Len(servers)),
             removed |-> TRUE]
    ELSE [Servers |-> servers, removed |-> FALSE]

\* a server entry of the configuration as the add command builds it
ConfigServer(id, name, url) ==
    [ID |-> id, Name |-> name, URL |-> url, Status |-> "stopped", ActiveConnections |-> 0]

\* DefaultConfig: the servers LoadConfig returns when the file does not exist
DefaultServers ==
    << ConfigServer("generic-llm-server", "Generic LLM Server",
                    "stdio://go run ./src/mcp/servers/generic_llm.go"),
       ConfigServer("github-server", "GitHub Integration Server",
                    "stdio://npx @modelcontextprotocol/server-github") >>

\* the characters generateID of the command line keeps
IDChars == {"a", "b", "A", "B", "0", "1", "-", "_"}

RECURSIVE mainGenerateIDFrom(_, _)
mainGenerateIDFrom(name, i) ==
    IF i > Len(name) THEN ""
    ELSE (IF SubSeq(name, i, i) \in IDChars THEN SubSeq(name, i, i) ELSE "-")
         \o mainGenerateIDFrom(name, i + 1)

\* generateID of cmd/mcop/main.go: the name with every character that is
\* no letter, digit, '-' or '_' replaced by '-'
mainGenerateID(name) == mainGenerateIDFrom(name, 1)

\* AddServer with the search for an existing ID left out
AddServerAppends(servers, server) == Append(servers, server)

\* config.AddServer: the entry with the server's ID is replaced, and the
\* server is appended when there is none
AddServer(servers, server) ==
    IF \E i \in DOMAIN servers : servers[i].ID = server.ID
    THEN LET i == CHOOSE k \in DOMAIN servers :
                     /\ servers[k].ID = server.ID
                     /\ \A j \in 1..(k - 1) : servers[j].ID # server.ID
         IN [servers EXCEPT ![i] = server]
    ELSE Append(servers, server)

\* the names and URLs the add command is run with
AddNames == {"a b", "a-b", "ab"}
AddURLs == {"", "ftp://h", "stdio://echo hi"}

----------------------------------------------------------------------------
(* One connection: a client as the stdio branch of Connect leaves it, its  *)
(* child process, the two pipes, the readLoop goroutine and the callers of *)
(* Call and Disconnect; beside it the remove command of the CLI, which     *)
(* runs as a process of its own on the configuration file.                 *)

\* the URLs the connection is made for: a launchable command, a command
\* that cannot be started, and an empty command
SessionURLs == {"stdio://echo hi", "stdio://nosuch", "stdio://''"}

SessionServers == {MCPServer(id, url, "stopped", "zero", 0) : id \in CfgIDs, url \in SessionURLs}

\* another server of the configuration file
OtherServer == MCPServer("2", "http://localhost:8000/sse", "stopped", "zero", 0)

\* the lines a server writes: a response to request id (a result or an
\* error), a line that is no JSON, and a line longer than the 64 KiB token
\* limit of bufio.Scanner
ResponseLine(id, outcome) == [kind |-> "json", id |-> id, outcome |-> outcome]
NoiseLine(kind) == [kind |-> kind, id |-> -1, outcome |-> "none"]

\* the IDs the remove command is run with
RemoveIDs == CfgIDs \cup {"2"} \cup {mainGenerateID(name) : name \in AddNames}

\* the client after NewMCPClient(server) and the stdio branch of Connect, and
\* the record and the map entry the start branch of ToggleServer leaves for
\* that result
InitSession ==
    /\ \E server \in SessionServers :
          LET r == ConnectStdio(NewMCPClient(server)) IN
          /\ clients = << r.client >>
          /\ cfgFile = << server, OtherServer >>
          /\ Servers = << IF r.err = "nil"
                          THEN Active([server EXCEPT !.Status = "running", !.StartTime = "set"])
                          ELSE [server EXCEPT !.Status = "error"] >>
          /\ MCPConnections = IF r.err = "nil" THEN MapPut(<< >>, server.ID, 1) ELSE << >>
    /\ proc = IF clients[1].cmd = "running" THEN "running" ELSE "none"
    /\ loop = IF clients[1].loops > 0 THEN "running" ELSE "none"
    /\ outbuf = << >>
    /\ stdinbuf = << >>
    /\ printed = << >>
    /\ calls = << >>
    /\ now = 0
    /\ descendant = FALSE
    /\ SelectedIndex = 0
    /\ View = "list"
    /\ pc = "running"
    /\ last = [op |-> "Connect", err |-> ConnectStdio(NewMCPClient(clients[1].Server)).err]
    /\ nConnect = 1
    /\ Quiet

appVars == <<Servers, MCPConnections, SelectedIndex, View, nConnect>>

\* time passes
Tick ==
    /\ now < MaxTime
    /\ now' = now + 1
    /\ UNCHANGED <<appVars, uiVars, srvVars, parseVars, logVars, writeVars, descendant, clients, pc, last, proc, loop, outbuf, stdinbuf, printed, calls, cfgFile>>

\* a caller calls Call, which returns at once
SessCall ==
    /\ pc = "running"
    /\ Len(calls) < MaxCalls
    /\ LET r == Call(clients[1], now, proc = "running") IN
       /\ calls' = Append(calls, [id |-> r.id, err |-> r.err, result |-> r.result])
       /\ stdinbuf' = IF r.wrote THEN Append(stdinbuf, r.id) ELSE stdinbuf
       /\ last' = [op |-> "Call", err |-> r.err]
    /\ UNCHANGED <<appVars, uiVars, srvVars, parseVars, logVars, writeVars, descendant, clients, pc, proc, loop, outbuf, printed, now, cfgFile>>

\* a caller calls Disconnect: Kill ends the child process
SessDisconnect ==
    /\ pc = "running"
    /\ LET d == Disconnect(clients[1]) IN
       /\ clients' = << d.client >>
       /\ pc' = IF d.panic THEN "crashed" ELSE pc
       /\ last' = [op |-> "Disconnect", err |-> d.err]
       /\ proc' = IF ~d.panic /\ proc = "running" THEN "killed" ELSE proc
    /\ UNCHANGED <<appVars, uiVars, srvVars, parseVars, logVars, writeVars, descendant, loop, outbuf, stdinbuf, printed, calls, now, cfgFile>>

\* the server reads a request and writes its response line
ServerRespond ==
    /\ pc = "running"
    /\ proc = "running"
    /\ stdinbuf # << >>
    /\ Len(outbuf) + Len(printed) < MaxLines
    /\ \E outcome \in {"result", "error"} :
          outbuf' = Append(outbuf, ResponseLine(Head(stdinbuf), outcome))
    /\ stdinbuf' = Tail(stdinbuf)
    /\ UNCHANGED <<appVars, uiVars, srvVars, parseVars, logVars, writeVars, descendant, clients, pc, last, proc, loop, printed, calls, now, cfgFile>>

\* the server writes a line that is no response
ServerNoise ==
    /\ pc = "running"
    /\ proc = "running"
    /\ Len(outbuf) + Len(printed) < MaxLines
    /\ \E kind \in {"garbage", "toolong"} : outbuf' = Append(outbuf, NoiseLine(kind))
    /\ UNCHANGED <<appVars, uiVars, srvVars, parseVars, logVars, writeVars, descendant, clients, pc, last, proc, loop, stdinbuf, printed, calls, now, cfgFile>>

\* the child process exits by itself
ProcExit ==
    /\ pc = "running"
    /\ proc = "running"
    /\ proc' = "exited"
    /\ UNCHANGED <<appVars, uiVars, srvVars, parseVars, logVars, writeVars, descendant, clients, pc, last, loop, outbuf, stdinbuf, printed, calls, now, cfgFile>>

\* the child starts a process that inherits its stdout
Spawn ==
    /\ pc = "running"
    /\ proc = "running"
    /\ ~descendant
    /\ descendant' = TRUE
    /\ UNCHANGED <<appVars, uiVars, srvVars, parseVars, logVars, writeVars, clients, pc, last, proc, loop, outbuf,
                   stdinbuf, printed, calls, now, cfgFile>>

\* the process started by the child exits
DescendantExit ==
    /\ pc = "running"
    /\ descendant
    /\ descendant' = FALSE
    /\ UNCHANGED <<appVars, uiVars, srvVars, parseVars, logVars, writeVars, clients, pc, last, proc, loop, outbuf,
                   stdinbuf, printed, calls, now, cfgFile>>

\* the values the unsynchronised read of c.connected in readLoop can give:
\* the field, or still true once Disconnect has written it in another goroutine
SeenConnected == {clients[1].connected} \cup (IF clients[1].cancelled THEN {TRUE} ELSE {})

\* readLoop: scanner.Scan() gives a line; a line over the token limit makes
\* Scan return false and the loop end; otherwise the loop breaks when it
\* sees connected false, and logs the line when it sees it true
LoopRead ==
    /\ pc = "running"
    /\ loop = "running"
    /\ outbuf # << >>
    /\ outbuf' = Tail(outbuf)
    /\ \E seen \in SeenConnected :
          IF Head(outbuf).kind = "toolong" \/ ~seen
          THEN loop' = "done" /\ printed' = printed
          ELSE loop' = loop /\ printed' = Append(printed, Head(outbuf))
    /\ UNCHANGED <<appVars, uiVars, srvVars, parseVars, logVars, writeVars, descendant, clients, pc, last, proc, stdinbuf, calls, now, cfgFile>>

\* readLoop: scanner.Scan() returns false at the end of the stream, that is
\* when every process that held the write end of the pipe is gone, and
\* readLoop returns
LoopEOF ==
    /\ pc = "running"
    /\ loop = "running"
    /\ outbuf = << >>
    /\ proc \in {"exited", "killed"}
    /\ ~descendant
    /\ loop' = "done"
    /\ UNCHANGED <<appVars, uiVars, srvVars, parseVars, logVars, writeVars, descendant, clients, pc, last, proc, outbuf, stdinbuf, printed, calls, now, cfgFile>>

\* the remove command of the CLI, run with an ID: the configuration file
\* is loaded, the server removed and the file saved; an unknown ID ends the
\* command with exit status 1
RemoveCmd ==
    /\ \E serverID \in RemoveIDs :
          LET r == RemoveServer(cfgFile, serverID) IN
          /\ cfgFile' = r.Servers
          /\ last' = [op |-> "remove", err |-> IF r.removed THEN "nil" ELSE "not found"]
    /\ UNCHANGED <<appVars, uiVars, srvVars, parseVars, logVars, writeVars, descendant, clients, pc, proc, loop, outbuf, stdinbuf, printed, calls, now>>

NextSession ==
    \/ KeyQuit
    \/ RemoveCmd
    \/ Tick
    \/ SessCall
    \/ SessDisconnect
    \/ ServerRespond
    \/ ServerNoise
    \/ ProcExit
    \/ Spawn
    \/ DescendantExit
    \/ LoopRead
    \/ LoopEOF

SpecSession == InitSession /\ [][NextSession]_vars

----------------------------------------------------------------------------
(* Goroutines that call Call on one client at the same time.  Call takes   *)
(* no lock of its own.  c.stdin is the *os.File of cmd.StdinPipe: its      *)
(* Write (internal/poll.FD.Write) takes the write lock of the file, writes *)
(* the buffer in as many pieces as the pipe accepts, and releases the      *)
(* lock.  A caller is at "idle", "marshalled" (the frame is built) or      *)
(* "writing" (inside Write, holding the lock).                             *)

Callers == 1..MaxCallers

\* the callers that have entered Call and not returned
InCall == {g \in Callers : callers[g].at # "idle"}

\* a client as the stdio branch of Connect leaves it, and no caller in Call
InitWriters ==
    /\ \E server \in SessionServers :
          LET r == ConnectStdio(NewMCPClient(server)) IN
          /\ clients = << r.client >>
          /\ last = [op |-> "Connect", err |-> r.err]
    /\ proc = IF clients[1].cmd = "running" THEN "running" ELSE "none"
    /\ loop = IF clients[1].loops > 0 THEN "running" ELSE "none"
    /\ callers = [g \in Callers |-> [at |-> "idle", id |-> 0, sent |-> 0, done |-> FALSE]]
    /\ fdlock = 0
    /\ wire = << >>
    /\ outbuf = << >>
    /\ stdinbuf = << >>
    /\ printed = << >>
    /\ calls = << >>
    /\ now = 0
    /\ cfgFile = << >>
    /\ descendant = FALSE
    /\ Servers = << >>
    /\ MCPConnections = << >>
    /\ SelectedIndex = 0
    /\ View = "list"
    /\ pc = "running"
    /\ nConnect = 1
    /\ ShowDialog = FALSE
    /\ DialogType = ""
    /\ LogMessages = << >>
    /\ handler = "none"
    /\ request = NoRequest
    /\ response = NoRequest
    /\ executed = {}
    /\ touched = {}
    /\ nonblank = 0
    /\ written = 0
    /\ parseInput = ""
    /\ parseOutput = << >>
    /\ added = << >>
    /\ console = << >>

\* Call up to the Write: the connected test, generateID and json.Marshal;
\* on a client that is not connected Call returns the error at once
CallEnter(g) ==
    /\ callers[g].at = "idle"
    /\ Len(calls) + Cardinality(InCall) < MaxCalls
    /\ LET r == Call(clients[1], now, TRUE) IN
       IF r.err = "nil"
       THEN /\ callers' = [callers EXCEPT ![g] = [at |-> "marshalled", id |-> r.id,
                                                   sent |-> 0, done |-> FALSE]]
            /\ UNCHANGED <<calls, last>>
       ELSE /\ calls' = Append(calls, [id |-> r.id, err |-> r.err, result |-> r.result])
            /\ last' = [op |-> "Call", err |-> r.err]
            /\ UNCHANGED callers
    /\ UNCHANGED <<appVars, uiVars, srvVars, parseVars, logVars, descendant, clients, pc, proc,
                   loop, outbuf, stdinbuf, printed, now, cfgFile, fdlock, wire>>

\* c.stdin.Write entered without waiting for the lock of the file
WriteEnterUnlocked(g) ==
    /\ callers[g].at = "marshalled"
    /\ fdlock' = g
    /\ callers' = [callers EXCEPT ![g].at = "writing"]
    /\ UNCHANGED <<appVars, uiVars, srvVars, parseVars, logVars, descendant, clients, pc, last,
                   proc, loop, outbuf, stdinbuf, printed, calls, now, cfgFile, wire>>

\* c.stdin.Write is entered: the caller gets the write lock of the file
\* once no other caller holds it
WriteEnter(g) ==
    /\ callers[g].at = "marshalled"
    /\ fdlock = 0
    /\ fdlock' = g
    /\ callers' = [callers EXCEPT ![g].at = "writing"]
    /\ UNCHANGED <<appVars, uiVars, srvVars, parseVars, logVars, descendant, clients, pc, last,
                   proc, loop, outbuf, stdinbuf, printed, calls, now, cfgFile, wire>>

\* inside Write: the pipe takes the next piece of the frame, the rest of
\* the frame (final) or a part of it
WriteChunk(g) ==
    /\ callers[g].at = "writing"
    /\ ~callers[g].done
    /\ \E final \in BOOLEAN :
          /\ (callers[g].sent + 1 = MaxChunks => final)
          /\ wire' = Append(wire, [g |-> g, id |-> callers[g].id,
                                   part |-> callers[g].sent + 1, final |-> final])
          /\ callers' = [callers EXCEPT ![g].sent = @ + 1, ![g].done = final]
    /\ UNCHANGED <<appVars, uiVars, srvVars, parseVars, logVars, descendant, clients, pc, last,
                   proc, loop, outbuf, stdinbuf, printed, calls, now, cfgFile, fdlock>>

\* the whole frame is written: Write releases the lock and Call returns the
\* placeholder response
WriteReturn(g) ==
    /\ callers[g].at = "writing"
    /\ callers[g].done
    /\ fdlock' = 0
    /\ callers' = [callers EXCEPT ![g] = [at |-> "idle", id |-> 0, sent |-> 0, done |-> FALSE]]
    /\ calls' = Append(calls, [id |-> callers[g].id, err |-> "nil", result |-> "nil"])
    /\ last' = [op |-> "Call", err |-> "nil"]
    /\ UNCHANGED <<appVars, uiVars, srvVars, parseVars, logVars, descendant, clients, pc,
                   proc, loop, outbuf, stdinbuf, printed, now, cfgFile, wire>>

NextWriters ==
    \/ Tick
    \/ \E g \in Callers : CallEnter(g)
    \/ \E g \in Callers : WriteEnter(g)
    \/ \E g \in Callers : WriteChunk(g)
    \/ \E g \in Callers : WriteReturn(g)

SpecWriters == InitWriters /\ [][NextWriters]_vars

----------------------------------------------------------------------------
(* The configuration commands of the CLI: add and remove on the servers of *)
(* config/default.json, and AddServer called on a loaded configuration.    *)

\* the configurations the commands start from: no file (LoadConfig gives
\* DefaultConfig), a file with no server, a file with one server
InitConfig ==
    /\ cfgFile \in {DefaultServers, << >>, << ConfigServer("ab", "ab", "http://h") >>}
    /\ proc = "none"
    /\ loop = "none"
    /\ outbuf = << >>
    /\ stdinbuf = << >>
    /\ printed = << >>
    /\ calls = << >>
    /\ now = 0
    /\ descendant = FALSE
    /\ Servers = << >>
    /\ MCPConnections = << >>
    /\ clients = << >>
    /\ SelectedIndex = 0
    /\ View = "list"
    /\ pc = "running"
    /\ last = NoCall
    /\ nConnect = 0
    /\ Quiet

\* the add command, run with a name and a URL: the ID is generated from
\* the name; a server with that ID or that name ends the command with exit
\* status 1; otherwise the server is added and the file saved
AddCmd ==
    /\ \E name \in AddNames, url \in AddURLs :
          LET id == mainGenerateID(name)
              exists == \E i \in DOMAIN cfgFile :
                           cfgFile[i].ID = id \/ cfgFile[i].Name = name
          IN
          /\ cfgFile' = IF exists THEN cfgFile
                        ELSE AddServer(cfgFile, ConfigServer(id, name, url))
          /\ last' = [op |-> "add", err |-> IF exists THEN "already exists" ELSE "nil",
                      name |-> name]
    /\ UNCHANGED <<appVars, uiVars, srvVars, parseVars, logVars, writeVars, descendant, clients, pc, proc, loop, outbuf, stdinbuf, printed, calls, now>>

\* the servers AddServer is called with
AddedServers == {ConfigServer(id, "n", "http://h") : id \in {"ab", "a-b"}}

\* AddServer called on the configuration
CallAddServer ==
    /\ \E server \in AddedServers :
          cfgFile' = AddServer(cfgFile, server)
    /\ last' = [op |-> "AddServer", err |-> "nil"]
    /\ UNCHANGED <<appVars, uiVars, srvVars, parseVars, logVars, writeVars, descendant, clients, pc, proc, loop, outbuf, stdinbuf, printed, calls, now>>

NextConfig ==
    \/ AddCmd
    \/ CallAddServer
    \/ RemoveCmd

SpecConfig == InitConfig /\ [][NextConfig]_vars

----------------------------------------------------------------------------
(* The running TUI: the Bubble Tea program is given the ui.AppInterface    *)
(* wrapper (cmd/mcop/tui.go), whose Update handles every key message       *)
(* itself and hands only the other messages to AppModel.Update.            *)

\* the most log messages addLogMessage keeps
LogLimit == 50

\* addLogMessage keeping the oldest LogLimit messages
addLogMessageKeepsOldest(log, message) ==
    LET l == Append(log, message) IN
    IF Len(l) > LogLimit THEN SubSeq(l, 1, LogLimit) ELSE l

\* addLogMessage: the message is appended and the newest LogLimit kept
addLogMessage(log, message) ==
    LET l == Append(log, message) IN
    IF Len(l) > LogLimit THEN SubSeq(l, Len(l) - LogLimit + 1, Len(l)) ELSE l

\* the keys pressed
UIKeys == {"q", "ctrl+c", "up", "k", "down", "j", "enter", "esc", "r", "c",
           "s", "d", "h", "x", "y", "Y", "n"}

\* ui.NewAppModel, and Init called by the Bubble Tea program
InitUI ==
    /\ \E cfg \in CfgLists :
           Servers = IF Len(cfg) = 0 THEN MockServers ELSE cfg
    /\ MCPConnections = << >>
    /\ clients = << >>
    /\ SelectedIndex = 0
    /\ View = "list"
    /\ pc = "running"
    /\ last = [op |-> "none", err |-> "none", key |-> "none"]
    /\ nConnect = 0
    /\ Idle
    /\ Quiet

\* Update for a key message while a dialog is shown
DialogKey(key) ==
    /\ IF DialogType = "download"
       THEN IF key \in {"y", "Y"}
            THEN /\ LogMessages' = addLogMessage(
                                       addLogMessage(LogMessages,
                                                     "Starting download of MCP server..."),
                                       "Download complete!")
                 /\ ShowDialog' = FALSE
            ELSE IF key \in {"n", "esc"}
            THEN /\ LogMessages' = addLogMessage(LogMessages, "Download cancelled")
                 /\ ShowDialog' = FALSE
            ELSE UNCHANGED <<LogMessages, ShowDialog>>
       ELSE IF DialogType = "help"
       THEN /\ ShowDialog' = FALSE
            /\ LogMessages' = LogMessages
       ELSE IF key \in {"y", "Y"}
            THEN /\ ShowDialog' = FALSE
                 /\ LogMessages' = addLogMessage(LogMessages, "Dialog confirmed")
            ELSE IF key \in {"n", "esc"}
            THEN /\ ShowDialog' = FALSE
                 /\ LogMessages' = addLogMessage(LogMessages, "Dialog cancelled")
            ELSE UNCHANGED <<LogMessages, ShowDialog>>
    /\ last' = [op |-> "none", err |-> "none", key |-> key]
    /\ UNCHANGED <<Servers, MCPConnections, clients, pc, DialogType>>

\* Update for a key message while no dialog is shown, the call it makes on
\* the application model being o and the message it logs after the call m
ModelCall(key, o, m) ==
    /\ Len(o.clients) <= MaxClients
    /\ Servers' = o.Servers
    /\ MCPConnections' = o.MCPConnections
    /\ clients' = o.clients
    /\ pc' = IF o.panic THEN "crashed" ELSE pc
    /\ last' = [op |-> o.last.op, err |-> o.last.err, key |-> key]
    /\ LogMessages' = IF o.panic THEN LogMessages ELSE addLogMessage(LogMessages, m)
    /\ UNCHANGED <<ShowDialog, DialogType>>

\* Update for a key message while no dialog is shown
NormalKey(key) ==
    IF key \in {"h", "x"}
    THEN /\ ShowDialog' = TRUE
         /\ DialogType' = IF key = "h" THEN "help" ELSE "download"
         /\ last' = [op |-> "none", err |-> "none", key |-> key]
         /\ UNCHANGED <<Servers, MCPConnections, clients, pc, LogMessages>>
    ELSE IF key = "s" /\ View = "list" /\ SelectedIndex < Len(Servers)
    THEN ModelCall(key, ToggleServer(SelectedIndex),
                   IF Servers[SelectedIndex + 1].Status = "running"
                   THEN "Stopped server" ELSE "Started server")
    ELSE IF key = "d" /\ View = "detail" /\ SelectedIndex < Len(Servers)
    THEN ModelCall(key, DisconnectServer(SelectedIndex), "Disconnected from server")
    ELSE /\ last' = [op |-> "none", err |-> "none", key |-> key]
         /\ UNCHANGED <<Servers, MCPConnections, clients, pc, uiVars>>

\* AppInterface.Update for the key message of key; it returns no command
UIUpdate(key) ==
    /\ pc = "running"
    /\ IF ShowDialog THEN DialogKey(key) ELSE NormalKey(key)
    /\ Len(LogMessages') <= MaxLog
    /\ UNCHANGED <<SelectedIndex, View, nConnect, sessVars, srvVars, parseVars, logVars, writeVars>>

NextUI == \E key \in UIKeys : UIUpdate(key)

SpecUI == InitUI /\ [][NextUI]_vars

\* the Bubble Tea program delivers every key the user presses to Update;
\* the user keeps pressing every key
SpecUIFair == SpecUI /\ \A key \in UIKeys : WF_vars(UIUpdate(key))

----------------------------------------------------------------------------
(* The operation log on its own: messages are added to an empty log until  *)
(* it holds more than it keeps, and the view is rendered in between.       *)

\* renderLogConsole: the lines of the log console: the heading, the last
\* five log messages, and a placeholder when there is none
renderLogConsole(log) ==
    LET startIdx == IF Len(log) > 5 THEN Len(log) - 5 ELSE 0 IN
    << "Operation Logs:" >>
       \o SubSeq(log, startIdx + 1, Len(log))
       \o (IF Len(log) = 0 THEN << "[No recent logs]" >> ELSE << >>)

\* addServerLog: the message for an operation on a server
ServerMessage(serverName, operation) == "Server '" \o serverName \o "' " \o operation

\* ui.NewAppModel: the log is empty
InitLog ==
    /\ LogMessages = << >>
    /\ added = << >>
    /\ console = << >>
    /\ ShowDialog = FALSE
    /\ DialogType = ""
    /\ last = NoCall
    /\ pc = "running"
    /\ Servers = << >>
    /\ MCPConnections = << >>
    /\ clients = << >>
    /\ SelectedIndex = 0
    /\ View = "list"
    /\ nConnect = 0
    /\ Idle
    /\ handler = "none"
    /\ request = NoRequest
    /\ response = NoRequest
    /\ executed = {}
    /\ touched = {}
    /\ nonblank = 0
    /\ written = 0
    /\ parseInput = ""
    /\ parseOutput = << >>
    /\ callers = << >>
    /\ fdlock = 0
    /\ wire = << >>

\* addServerLog is called for the start of one more server, the n-th
\* message being about the server "s<n>"
CallAddServerLog ==
    /\ Len(added) < LogLimit + MaxAdds
    /\ LET message == ServerMessage("s" \o ToString(Len(added) + 1), "started") IN
       /\ LogMessages' = addLogMessage(LogMessages, message)
       /\ added' = Append(added, message)
    /\ last' = [op |-> "addServerLog", err |-> "nil"]
    /\ UNCHANGED <<appVars, sessVars, srvVars, parseVars, writeVars, clients, pc,
                   ShowDialog, DialogType, console>>

\* View is called: the log console is rendered
CallView ==
    /\ console' = renderLogConsole(LogMessages)
    /\ last' = [op |-> "View", err |-> "nil"]
    /\ UNCHANGED <<appVars, sessVars, srvVars, parseVars, writeVars, clients, pc,
                   ShowDialog, DialogType, LogMessages, added>>

NextLog ==
    \/ CallAddServerLog
    \/ CallView

SpecLog == InitLog /\ [][NextLog]_vars

----------------------------------------------------------------------------
(* The example servers (src/examples/cli_mcp_server.go,                    *)
(* src/src/mcp/servers/generic_llm.go, the Qwen example): the Run loop     *)
(* reads a line from stdin, HandleRequest answers it, the answer is        *)
(* written to stdout.  A request is the decoded JSON object; a field that  *)
(* is missing or holds no string is NotAString.                            *)

NotAString == "<not a string>"

\* the code of every error response
ErrorCode == -32000

\* strings.HasPrefix
HasPrefix(str, prefix) ==
    Len(str) >= Len(prefix) /\ SubSeq(str, 1, Len(prefix)) = prefix

RECURSIVE SplitFrom(_, _, _, _)
SplitFrom(str, seps, i, cur) ==
    IF i > Len(str) THEN << cur >>
    ELSE IF SubSeq(str, i, i) \in seps
         THEN << cur >> \o SplitFrom(str, seps, i + 1, "")
         ELSE SplitFrom(str, seps, i + 1, cur \o SubSeq(str, i, i))

\* the pieces of str between the separator characters, empty pieces included
Split(str, seps) == SplitFrom(str, seps, 1, "")

\* strings.Fields: the pieces of str between runs of white space
Fields(str) == SelectSeq(Split(str, {" ", "\t", "\n"}), LAMBDA piece : piece # "")

\* NewCLIMCPHandler: the allowed commands
allowedCommands ==
    {"ls", "cat", "echo", "date", "pwd", "whoami", "grep", "find", "head", "tail", "wc"}

\* sh -c command: the shell runs the simple commands of the list one after
\* the other; the programs it runs are their first words
ShellPrograms(command) ==
    LET simple == Split(command, {";"}) IN
    {Fields(simple[i])[1] : i \in {k \in DOMAIN simple : Fields(simple[k]) # << >>}}

\* createSuccessResponse: the JSON object with the keys id and result
createSuccessResponse(id, result) ==
    [kind |-> "json", id |-> id, keys |-> {"id", "result"}, result |-> result,
     code |-> 0, message |-> ""]

\* the id createErrorResponse is replaced by when the id is dropped
createErrorResponseNoID(id, message) ==
    [kind |-> "json", id |-> "", keys |-> {"id", "error"}, result |-> "",
     code |-> ErrorCode, message |-> message]

\* createErrorResponse: the JSON object with the keys id and error, the
\* error holding the code and the message
createErrorResponse(id, message) ==
    [kind |-> "json", id |-> id, keys |-> {"id", "error"}, result |-> "",
     code |-> ErrorCode, message |-> message]

\* what a handler gives: the response and what it did to produce it
Handled(resp, progs, files) == [response |-> resp, executed |-> progs, touched |-> files]

\* CLIMCPHandler.handleExecuteCommand
handleExecuteCommand(id, args) ==
    IF args.command = NotAString
    THEN Handled(createErrorResponse(id, "command is required"), {}, {})
    ELSE LET cmdParts == Fields(args.command) IN
         IF cmdParts = << >>
         THEN Handled(createErrorResponse(id, "empty command"), {}, {})
         ELSE IF cmdParts[1] \notin allowedCommands
         THEN Handled(createErrorResponse(id, "command '" \o cmdParts[1] \o "' is not allowed"),
                      {}, {})
         ELSE Handled(createSuccessResponse(id, "output"), ShellPrograms(args.command), {})

\* the security check of handleReadFile and handleWriteFile
PathDenied(path) == HasPrefix(path, "../") \/ HasPrefix(path, "/")

\* CLIMCPHandler.handleReadFile; fileOk: os.ReadFile succeeds
handleReadFile(id, args, fileOk) ==
    IF args.path = NotAString
    THEN Handled(createErrorResponse(id, "path is required"), {}, {})
    ELSE IF PathDenied(args.path)
    THEN Handled(createErrorResponse(id, "access denied: only relative paths allowed"), {}, {})
    ELSE IF ~fileOk
    THEN Handled(createErrorResponse(id, "failed to read file"), {},
                 {[op |-> "read", path |-> args.path]})
    ELSE Handled(createSuccessResponse(id, "content"), {},
                 {[op |-> "read", path |-> args.path]})

\* CLIMCPHandler.handleWriteFile; fileOk: os.WriteFile succeeds
handleWriteFile(id, args, fileOk) ==
    IF args.path = NotAString
    THEN Handled(createErrorResponse(id, "path is required"), {}, {})
    ELSE IF args.content = NotAString
    THEN Handled(createErrorResponse(id, "content is required"), {}, {})
    ELSE IF PathDenied(args.path)
    THEN Handled(createErrorResponse(id, "access denied: only relative paths allowed"), {}, {})
    ELSE IF ~fileOk
    THEN Handled(createErrorResponse(id, "failed to write file"), {},
                 {[op |-> "write", path |-> args.path]})
    ELSE Handled(createSuccessResponse(id, "size"), {},
                 {[op |-> "write", path |-> args.path]})

\* the tools the switch of handleCallTool has a case for
DeclaredTools(h) ==
    IF h = "cli" THEN {"execute_command", "read_file", "write_file"}
    ELSE IF h = "generic" THEN {"chat_complete", "text_embedding", "list_models"}
    ELSE {"qwen_chat_complete", "qwen_text_embedding"}

\* handleCallTool of the three servers; the tools of the LLM servers answer
\* with a made-up result
handleCallTool(h, id, params, fileOk) ==
    IF params.name = NotAString
    THEN Handled(createErrorResponse(id, "tool name is required"), {}, {})
    ELSE IF params.name \notin DeclaredTools(h)
    THEN Handled(createErrorResponse(id, "unknown tool: " \o params.name), {}, {})
    ELSE IF params.name = "execute_command" THEN handleExecuteCommand(id, params)
    ELSE IF params.name = "read_file" THEN handleReadFile(id, params, fileOk)
    ELSE IF params.name = "write_file" THEN handleWriteFile(id, params, fileOk)
    ELSE Handled(createSuccessResponse(id, "completion"), {}, {})

\* HandleRequest of the three servers, for a request that is a JSON object
HandleRequest(h, req, fileOk) ==
    IF req.method = NotAString
    THEN Handled(createErrorResponse("1", "Invalid request: method is required"), {}, {})
    ELSE IF req.id = NotAString
    THEN Handled(createErrorResponse("", "Invalid request: id is required"), {}, {})
    ELSE IF req.method = "call_tool"
    THEN IF ~req.params.present
         THEN Handled(createErrorResponse(req.id, "Invalid request: params is required"), {}, {})
         ELSE handleCallTool(h, req.id, req.params, fileOk)
    ELSE IF req.method \in {"list_tools", "get_server_info"}
    THEN Handled(createSuccessResponse(req.id, req.method), {}, {})
    ELSE Handled(createErrorResponse(req.id, "Unknown method: " \o req.method), {}, {})

\* the params of a request: none, or a tool name with its arguments
Params(present, name, command, path, content) ==
    [present |-> present, name |-> name, command |-> command, path |-> path,
     content |-> content]

ToolNames == {"execute_command", "read_file", "chat_complete", "qwen_chat_complete",
              "nosuch", NotAString}
Commands == {NotAString, "", "echo hi", "rm x", "echo hi; rm x"}
Paths == {NotAString, "a.txt", "../x", "/etc/x", "sub/../../x"}
Contents == {NotAString, "c"}

RequestParams ==
    {Params(FALSE, NotAString, NotAString, NotAString, NotAString)}
    \cup {Params(TRUE, name, NotAString, NotAString, NotAString) : name \in ToolNames}
    \cup {Params(TRUE, "execute_command", command, NotAString, NotAString) : command \in Commands}
    \cup {Params(TRUE, "read_file", NotAString, path, NotAString) : path \in Paths}
    \cup {Params(TRUE, "write_file", NotAString, path, content) :
              path \in Paths, content \in Contents}

\* the input lines: JSON objects, a blank line, a line that is no JSON
Requests ==
    {[kind |-> "json", id |-> id, method |-> method, params |-> params] :
        id \in {"r1", NotAString},
        method \in {"call_tool", "list_tools", "get_server_info", "bogus", NotAString},
        params \in RequestParams}
    \cup {[kind |-> "blank"], [kind |-> "notjson"], [kind |-> "toolong"]}

\* one of the three servers has been started and has read nothing yet
InitServer ==
    /\ handler \in {"cli", "generic", "qwen"}
    /\ request = NoRequest
    /\ response = NoRequest
    /\ executed = {}
    /\ touched = {}
    /\ nonblank = 0
    /\ written = 0
    /\ parseInput = ""
    /\ parseOutput = << >>
    /\ added = << >>
    /\ console = << >>
    /\ callers = << >>
    /\ fdlock = 0
    /\ wire = << >>
    /\ ShowDialog = FALSE
    /\ DialogType = ""
    /\ LogMessages = << >>
    /\ Idle
    /\ Servers = << >>
    /\ MCPConnections = << >>
    /\ clients = << >>
    /\ SelectedIndex = 0
    /\ View = "list"
    /\ pc = "running"
    /\ last = NoCall
    /\ nConnect = 0

\* Run, one turn of the loop: the scanner reads a line; a blank line is
\* skipped; a line that is no JSON is answered with an error response with
\* the id "unknown"; any other line is answered by HandleRequest and the
\* answer printed as one line.  On a line longer than the scanner's buffer
\* (bufio.MaxScanTokenSize, 64 KiB) Scan returns false: the loop ends and Run
\* returns after logging the error.
ServeLine ==
    /\ pc = "running"
    /\ nonblank < MaxServed
    /\ \E req \in Requests, fileOk \in BOOLEAN :
          LET r == IF req.kind \in {"blank", "toolong"} THEN Handled(NoRequest, {}, {})
                   ELSE IF req.kind = "notjson"
                   THEN Handled(createErrorResponse("unknown", "failed to unmarshal request"),
                                {}, {})
                   ELSE HandleRequest(handler, req, fileOk)
          IN
          /\ request' = req
          /\ response' = r.response
          /\ executed' = r.executed
          /\ touched' = r.touched
          /\ nonblank' = IF req.kind = "blank" THEN nonblank ELSE nonblank + 1
          /\ written' = IF r.response = NoRequest THEN written ELSE written + 1
          /\ pc' = IF req.kind = "toolong" THEN "returned" ELSE pc
    /\ UNCHANGED <<appVars, uiVars, sessVars, parseVars, logVars, writeVars, clients, last, handler>>

NextServer == ServeLine

SpecServer == InitServer /\ [][NextServer]_vars

----------------------------------------------------------------------------
(* parseCommand called on command strings.                                 *)

\* the bytes of the command strings: a letter, space, tab, the two quotes
CommandBytes == {"a", " ", "\t", "'", "\""}

RECURSIVE StringsUpTo(_)
StringsUpTo(n) ==
    IF n = 0 THEN {""}
    ELSE LET shorter == StringsUpTo(n - 1) IN
         shorter \cup {str \o byte : str \in shorter, byte \in CommandBytes}

InitParse ==
    /\ parseInput \in StringsUpTo(MaxLen)
    /\ parseOutput = << >>
    /\ added = << >>
    /\ console = << >>
    /\ callers = << >>
    /\ fdlock = 0
    /\ wire = << >>
    /\ ShowDialog = FALSE
    /\ DialogType = ""
    /\ LogMessages = << >>
    /\ handler = "none"
    /\ request = NoRequest
    /\ response = NoRequest
    /\ executed = {}
    /\ touched = {}
    /\ nonblank = 0
    /\ written = 0
    /\ Idle
    /\ Servers = << >>
    /\ MCPConnections = << >>
    /\ clients = << >>
    /\ SelectedIndex = 0
    /\ View = "list"
    /\ pc = "running"
    /\ last = NoCall
    /\ nConnect = 0

\* parseCommand is called with the command string
CallParseCommand ==
    /\ parseOutput' = parseCommand(parseInput)
    /\ last' = [op |-> "parseCommand", err |-> "nil"]
    /\ UNCHANGED <<appVars, uiVars, sessVars, srvVars, logVars, writeVars, clients, pc, parseInput>>

NextParse == CallParseCommand

SpecParse == InitParse /\ [][NextParse]_vars

----------------------------------------------------------------------------
(* The properties checked.                                                 *)

\* the server the selection designates
Selected == Servers[SelectedIndex + 1]

\* a ToggleServer or DisconnectServer call on an existing server has just run
CallMade == last'.op # "none"

\* a URL of the form stdio://<command> whose command names a launchable executable
StdioLaunchable(url) ==
    /\ Len(url) > 8
    /\ SubSeq(url, 1, 8) = "stdio://"
    /\ LET parts == parseCommand(SubSeq(url, 9, Len(url))) IN
       Len(parts) > 0 /\ parts[1] \in Launchable

\* the handles of the connected clients made for server ID id
LiveHandles(id) ==
    {h \in 1..Len(clients) : clients[h].Server.ID = id /\ clients[h].connected}

C2_RunningHasConnectedClient ==
    \A i \in 1..Len(Servers) :
        Servers[i].Status = "running" =>
            /\ Servers[i].ID \in DOMAIN MCPConnections
            /\ clients[MCPConnections[Servers[i].ID]].connected

DeclaredEdges ==
    { <<"stopped", "connecting">>, <<"connecting", "running">>,
      <<"connecting", "error">>, <<"running", "stopped">>,
      <<"error", "connecting">> }

\* C4 (as claimed): every change of a server's Status made by ToggleServer
\* or DisconnectServer follows a declared edge.
C4_DeclaredEdgesOnly ==
    [][CallMade =>
          \A i \in 1..Len(Servers) :
              Servers'[i].Status # Servers[i].Status =>
                  <<Servers[i].Status, Servers'[i].Status>> \in DeclaredEdges]_vars

\* C5 (as claimed): ToggleServer on a stopped server whose URL is
\* stdio://<launchable command> brings it to "running" with StartTime recorded.
C5_StartReachesRunning ==
    [][(CallMade /\ View = "list" /\ Selected.Status = "stopped"
          /\ StdioLaunchable(Selected.URL))
       => /\ Servers'[SelectedIndex + 1].Status = "running"
          /\ Servers'[SelectedIndex + 1].StartTime = "set"]_vars

\* C6 (as claimed): ToggleServer on a server whose Status is "error" makes
\* a fresh connect attempt.
C6_ErrorIsRetried ==
    [][(CallMade /\ View = "list" /\ Selected.Status = "error")
       => last'.op = "start"]_vars

\* C7 (as claimed): Connect on a new client whose URL is stdio://<launchable
\* command> returns no error, spawns the command, starts the read loop and
\* sets connected.
C7_ConnectStdio ==
    [][(nConnect = 0 /\ nConnect' = 1 /\ StdioLaunchable(clients[1].Server.URL))
       => /\ last'.err = "nil"
          /\ clients'[1].connected
          /\ clients'[1].cmd = "running"
          /\ clients'[1].loops = 1]_vars

\* C8 (as claimed): a start attempt never crashes the process, and for a URL
\* that cannot be connected (empty, shorter than the scheme prefix, unknown
\* scheme, unlaunchable command) Connect returns an error and ToggleServer
\* records "error".
C8_ConnectFailureNotFatal ==
    [][(CallMade /\ View = "list" /\ Selected.Status = "stopped")
       => /\ pc' # "crashed"
          /\ ~StdioLaunchable(Selected.URL) =>
                /\ last'.err \notin {"nil", "none"}
                /\ Servers'[SelectedIndex + 1].Status = "error"]_vars

C11_StopStoppedIsNoOp ==
    [][(View = "detail" /\ SelectedIndex < Len(Servers)
          /\ Selected.Status = "stopped" /\ KeyD)
       => UNCHANGED <<Servers, MCPConnections, clients, SelectedIndex, View, pc>>]_vars

\* C11 witness: DisconnectServer has just run on a stopped server and did nothing.
C11_Witness ==
    /\ last.op = "noop"
    /\ View = "detail"
    /\ Selected.Status = "stopped"
    /\ pc = "running"

----------------------------------------------------------------------------
(* The properties of one connection.                                       *)

\* a response to request id has been delivered by the read loop
Delivered(id) ==
    \E i \in DOMAIN printed : printed[i].kind = "json" /\ printed[i].id = id

\* the server has written a response to request id
Answered(id) ==
    \/ Delivered(id)
    \/ \E i \in DOMAIN outbuf : outbuf[i].kind = "json" /\ outbuf[i].id = id

Held(conns, cls, id) == {<<conns[k], cls[conns[k]]>> : k \in DOMAIN conns \cap {id}}

----------------------------------------------------------------------------
(* The properties of the configuration commands.                           *)

\* a URL that is not empty and whose scheme is stdio, http or https
RecognisedURL(url) ==
    \/ Len(url) >= 8 /\ SubSeq(url, 1, 8) \in {"stdio://", "https://"}
    \/ Len(url) >= 7 /\ SubSeq(url, 1, 7) = "http://"

\* C21: a descriptor whose URL is empty or has a scheme other than stdio,
\* http, https never enters the configured server set: every server in the
\* set after a step was in it before the step or has a recognised URL.
C21_BadURLRejected ==
    [][\A i \in DOMAIN cfgFile' :
          \/ RecognisedURL(cfgFile'[i].URL)
          \/ \E j \in DOMAIN cfgFile : cfgFile[j] = cfgFile'[i]]_vars

\* C22: the IDs of the configured servers are pairwise distinct.
C22_ServerIDsUnique ==
    \A i, j \in DOMAIN cfgFile : i # j => cfgFile[i].ID # cfgFile[j].ID

\* an add command was refused for a name no server has, because the ID
\* generated from it is the ID of a server added under another name
C22_Witness ==
    /\ last.op = "add"
    /\ last.err = "already exists"
    /\ ~(\E i \in DOMAIN cfgFile : cfgFile[i].Name = last.name)
    /\ \E i \in DOMAIN cfgFile : cfgFile[i].ID = mainGenerateID(last.name)
    /\ Len(cfgFile) >= 2

----------------------------------------------------------------------------
(* The properties of the example servers.                                  *)

\* the request read last is a JSON object with a string id
HasStringID == request.kind = "json" /\ request.id # NotAString

\* C23: the response to a request that carries a string id has that id and
\* exactly one of result and error, whatever the method field holds.
C23_ResponseEchoesID ==
    HasStringID
    => /\ response.kind = "json"
       /\ response.id = request.id
       /\ (response.keys \cap {"result", "error"}) \in {{"result"}, {"error"}}

\* the request read last is a call_tool request that names a tool the
\* server has no case for
UnknownToolRequest ==
    /\ HasStringID
    /\ request.method = "call_tool"
    /\ request.params.present
    /\ request.params.name # NotAString
    /\ request.params.name \notin DeclaredTools(handler)

\* C24: a call_tool request that names a tool the server does not declare
\* is answered with an error response with the request's id, the code
\* -32000 and the message "unknown tool: <name>", and with no result.
C24_UnknownToolError ==
    UnknownToolRequest
    => /\ response.kind = "json"
       /\ response.id = request.id
       /\ response.keys = {"id", "error"}
       /\ response.code = -32000
       /\ response.message = "unknown tool: " \o request.params.name

C24_Witness ==
    /\ UnknownToolRequest
    /\ handler = "cli"
    /\ request.params.name = "nosuch"
    /\ response.message = "unknown tool: nosuch"

\* C28: every program run for an execute_command request is one of the
\* allowed commands.
C28_OnlyAllowedProgramsRun ==
    executed \subseteq allowedCommands

RECURSIVE LeavesFrom(_, _, _)
LeavesFrom(parts, i, depth) ==
    IF i > Len(parts) THEN FALSE
    ELSE IF parts[i] = ".." THEN (depth = 0 \/ LeavesFrom(parts, i + 1, depth - 1))
    ELSE IF parts[i] \in {"", "."} THEN LeavesFrom(parts, i + 1, depth)
    ELSE LeavesFrom(parts, i + 1, depth + 1)

\* the path resolves to a place outside the current directory
Outside(path) == HasPrefix(path, "/") \/ LeavesFrom(Split(path, {"/"}), 1, 0)

\* C29: no file outside the current directory is read or written: a path
\* that resolves outside it is answered with the access-denied error.
C29_FilesStayInCurrentDir ==
    /\ \A t \in touched : ~Outside(t.path)
    /\ (HasStringID /\ request.method = "call_tool" /\ request.params.present
          /\ handler = "cli"
          /\ request.params.name \in {"read_file", "write_file"}
          /\ request.params.path # NotAString /\ Outside(request.params.path)
          /\ (request.params.name = "write_file" => request.params.content # NotAString))
       => response.message = "access denied: only relative paths allowed"

----------------------------------------------------------------------------
(* The properties of the running TUI.                                      *)

\* C25: after Update has handled the key q or ctrl+c the application has
\* quit, whatever view or dialog was shown.
C25_QuitKeyQuits ==
    last.key \in {"q", "ctrl+c"} => pc = "quit"

\* the index the selection moves to on key
MovedIndex(key) ==
    IF key \in {"up", "k"}
    THEN IF SelectedIndex > 0 THEN SelectedIndex - 1 ELSE SelectedIndex
    ELSE IF SelectedIndex < Len(Servers) - 1 THEN SelectedIndex + 1 ELSE SelectedIndex

\* C26: the keys up, k, down and j, pressed while no dialog is shown, move
\* the selection by one: down unless it is 0, up unless it is the last index.
C26_ArrowsMoveSelection ==
    [][\A key \in {"up", "k", "down", "j"} :
          (UIUpdate(key) /\ ~ShowDialog) => SelectedIndex' = MovedIndex(key)]_vars

\* the key d has called DisconnectServer on the selected running server,
\* which is stopped now
DisconnectedByKeyD ==
    /\ last.key = "d"
    /\ last.op = "stop"
    /\ SelectedIndex < Len(Servers)
    /\ Selected.Status = "stopped"

----------------------------------------------------------------------------
(* The properties of parseCommand.                                         *)

\* the white space characters of the command strings
WhiteSpace == {" ", "\t"}

RECURSIVE SplitQuoted(_, _, _, _, _)
\* quote-aware white space splitting of str from byte i on: open is the
\* quote character that is open ("" for none), token the argument read so
\* far; a quote opens or closes and is dropped, white space outside
\* quotes ends the argument, any other byte is part of it
SplitQuoted(str, i, tokens, token, open) ==
    LET done == IF token # "" THEN Append(tokens, token) ELSE tokens IN
    IF i > Len(str) THEN done
    ELSE LET byte == SubSeq(str, i, i) IN
         IF open = "" /\ byte \in {"'", "\""} THEN SplitQuoted(str, i + 1, tokens, token, byte)
         ELSE IF open # "" /\ byte = open THEN SplitQuoted(str, i + 1, tokens, token, "")
         ELSE IF open = "" /\ byte \in WhiteSpace THEN SplitQuoted(str, i + 1, done, "", "")
         ELSE SplitQuoted(str, i + 1, tokens, token \o byte, open)

\* C30: parseCommand gives the quote-aware white space splitting of the
\* command string: arguments are separated by any white space character
\* outside quotes, quoted text stays in one argument, quotes are dropped.
C30_ParseCommandSplitsOnWhiteSpace ==
    last.op = "parseCommand" => parseOutput = SplitQuoted(parseInput, 1, << >>, "", "")

----------------------------------------------------------------------------
(* Further properties of one connection.                                   *)

\* call i was sent to the server and no response to its id was delivered
Outstanding(i) == calls[i].err = "nil" /\ ~Delivered(calls[i].id)

----------------------------------------------------------------------------
(* Further properties of the application model.                            *)

\* C35: after any sequence of keys handled by AppModel.handleKeyMsg, whenever
\* the server list is non-empty the selection is an index of the list:
\* 0 <= SelectedIndex < len(Servers).
C35_SelectionValid ==
    Len(Servers) > 0 => (0 <= SelectedIndex /\ SelectedIndex < Len(Servers))

\* C36: after ToggleServer(index) returns for a valid index, the server's
\* ActiveConnections is 1 if its Status is "running" and 0 otherwise, also on
\* the path where connecting fails and the status becomes "error".
C36_ActiveMatchesStatus ==
    [][(KeyS /\ View = "list" /\ SelectedIndex < Len(Servers) /\ pc' = "running")
       => Servers'[SelectedIndex + 1].ActiveConnections
            = IF Servers'[SelectedIndex + 1].Status = "running" THEN 1 ELSE 0]_vars

----------------------------------------------------------------------------
(* Further properties of the running TUI.                                  *)

\* the key s, handled in list view with no dialog shown, has appended the
\* message "Started server" to the log
StartedLogged ==
    /\ UIUpdate("s")
    /\ ~ShowDialog
    /\ SelectedIndex < Len(Servers)
    /\ LogMessages' = Append(LogMessages, "Started server")

\* C37: the key s in list view appends "Started server: <name>" to the log
\* only if that key press changed the selected server's status to "running".
C37_StartedLoggedOnlyWhenStarted ==
    [][StartedLogged => /\ Servers[SelectedIndex + 1].Status # "running"
                        /\ Servers'[SelectedIndex + 1].Status = "running"]_vars

----------------------------------------------------------------------------
(* Further properties of parseCommand and of Connect on its result.        *)

\* parseCommand has returned no empty argument, and the empty list for a
\* command that holds nothing but spaces and empty quotes
TokensNonEmpty ==
    last.op = "parseCommand"
    => /\ \A i \in DOMAIN parseOutput : parseOutput[i] # ""
       /\ (parseInput \in {"", " ", "''", "\"\"", " ''", "'' ", "'' \"", "''\"\""}
            => parseOutput = << >>)

\* the command of a stdio URL that holds nothing but spaces and empty quotes
BlankCommands == {"", " ", "''", "\"\"", " ''", "'' \"\""}

\* Connect was called on a stdio URL whose command is one of these
ConnectedBlankCommand ==
    /\ last.op = "Connect"
    /\ LET url == clients[1].Server.URL IN
       /\ Len(url) >= 8
       /\ SubSeq(url, 1, 8) = "stdio://"
       /\ SubSeq(url, 9, Len(url)) \in BlankCommands

\* C40: parseCommand returns no empty argument; a quoted empty argument is
\* dropped, a command of only spaces and empty quotes gives the empty list,
\* and Connect rejects such a command as an invalid command.
C40_BlankCommandRejected ==
    ConnectedBlankCommand
    => /\ parseCommand(SubSeq(clients[1].Server.URL, 9, Len(clients[1].Server.URL))) = << >>
       /\ last.err = "invalid command"

----------------------------------------------------------------------------
(* Further properties of the example servers.                              *)

\* C39: the Run loop of an example server writes exactly one response line
\* for every input line that is not blank, in the order of the lines, and
\* nothing for a blank line; a line that is no JSON is answered with an
\* error response with the id "unknown", and the loop keeps serving.
C39_OneResponsePerLine ==
    [][/\ written' = IF request'.kind = "blank" THEN written ELSE written + 1
       /\ (request'.kind = "notjson"
            => response' = createErrorResponse("unknown", response'.message))
       /\ pc' = "running"]_vars

----------------------------------------------------------------------------
(* The properties of the operation log.                                    *)

\* the newest n entries of a sequence, all of them if there are fewer
Newest(seq, n) == SubSeq(seq, (IF Len(seq) > n THEN Len(seq) - n ELSE 0) + 1, Len(seq))

\* the log messages the console shows: its lines without the heading and
\* the placeholder
Shown == SelectSeq(console, LAMBDA line : line \notin {"Operation Logs:", "[No recent logs]"})

\* C38: the log holds at most 50 entries, the most recently added ones in
\* the order they were added, and the log console shows exactly the last
\* min(5, n) of the n entries held.
C38_LogBounded ==
    /\ Len(LogMessages) <= 50
    /\ LogMessages = Newest(added, 50)
    /\ (last.op = "View" => Shown = Newest(LogMessages, 5))

\* the view was rendered after more than 50 messages were added
C38_Witness ==
    /\ last.op = "View"
    /\ Len(added) > 50
    /\ Len(Shown) = 5

----------------------------------------------------------------------------
(* The properties of concurrent calls.                                     *)

============================================================================
